---- MODULE Spec2Model ----
(***************************************************************************)
(* Network Performance Optimizer (api/index.py).                           *)
(*                                                                         *)
(* The service is stateless: each request carries a NetworkConditions      *)
(* value and the handler computes its response from that value alone.      *)
(* The state of the model is therefore the set of requests in flight, the  *)
(* position of each (received / answered) and the response each got.       *)
(*                                                                         *)
(* Numbers.  Python floats are modelled as exact fixed-point numbers: the  *)
(* integer n stands for the real n / One.  The request values are drawn    *)
(* from grids (bandwidth in hundredths of a Mbps, throughput in tenths,    *)
(* the rest in whole units) on which every product and quotient the code   *)
(* forms is again a whole number of units, so no operator below rounds     *)
(* except the formatting f"{x:.1f}", which is modelled as what it does:    *)
(* rounding to one decimal.  A value exactly half way between two tenths   *)
(* in the model may lie on either side of the half in binary, so there the *)
(* formatting may give either neighbour.                                   *)
(***************************************************************************)
EXTENDS Integers, Sequences, FiniteSets, TLC

\* 1.0 in fixed-point units
One == 60 * 100

\* ------------------------------------------------------------------------
\* Bounds of the request values
\* ------------------------------------------------------------------------
MaxBandwidth == 12
MaxLatency == 2
MaxJitter == 5
MaxPairJitter == 20
MaxPairBandwidth == 2

Min(a, b) == IF a <= b THEN a ELSE b
Max(a, b) == IF a >= b THEN a ELSE b

\* ------------------------------------------------------------------------
\* class NetworkConditions: the field constraints (gt=0, ge=0, le=1, ...)
\* ------------------------------------------------------------------------
NetworkConditions(c) ==
    /\ c.bandwidth > 0
    /\ c.throughput >= 0 /\ c.throughput <= One
    /\ c.packet_loss >= 0 /\ c.packet_loss <= 100 * One
    /\ c.latency >= 0
    /\ c.jitter >= 0

BandwidthValues == {60 * 9, 60 * 10} \cup {One * k : k \in 1..MaxBandwidth}
ThroughputValues == {(One \div 10) * t : t \in {0, 2, 3, 10}}
PacketLossValues == {One * p : p \in {0, 5, 6, 20}}
LatencyValues == {One * l : l \in {0, 100, 101}} \cup {One * 20 * k : k \in 1..MaxLatency}
JitterValues == {One * j : j \in {0, 30, 31}} \cup {One * k : k \in 1..MaxJitter}

\* the valid requests of the single-request specification
Inputs ==
    {c \in [bandwidth : BandwidthValues, throughput : ThroughputValues,
            packet_loss : PacketLossValues, latency : LatencyValues,
            jitter : JitterValues] : NetworkConditions(c)}

\* the valid requests of the two-request specification
PairInputs ==
    {c \in [bandwidth : {One * k : k \in 1..MaxPairBandwidth}, throughput : {0},
            packet_loss : {0}, latency : {0},
            jitter : {One * k : k \in 0..MaxPairJitter}] : NetworkConditions(c)}

\* ------------------------------------------------------------------------
\* f"{x:.1f}" of the real p / q (q > 0, p >= 0): the possible results, in tenths.
\* ------------------------------------------------------------------------
\* mutant: the digits after the first decimal are cut off
Format1RatioTruncated(p, q) == {(10 * p) \div q}

Format1Ratio(p, q) ==
    LET t == (20 * p + q) \div (2 * q)
    IN  IF (20 * p + q) % (2 * q) = 0 THEN {t - 1, t} ELSE {t}

Format1(x) == Format1Ratio(x, One)

\* ------------------------------------------------------------------------
\* analyze_network
\* ------------------------------------------------------------------------
\* mutant: the latency gate is checked after the throughput gate
RecommendationsReordered(conditions) ==
    LET r0 == << >>
        r1 == IF conditions.packet_loss > 5 * One
              THEN Append(r0, "High packet loss detected. Consider checking network hardware or ISP service.")
              ELSE r0
        r2 == IF conditions.jitter > 30 * One
              THEN Append(r1, "High jitter detected. QoS settings adjustment recommended.")
              ELSE r1
        r3 == IF 10 * conditions.throughput < 3 * One
              THEN Append(r2, "Low throughput detected. Bandwidth upgrade or traffic optimization recommended.")
              ELSE r2
        r4 == IF conditions.latency > 100 * One
              THEN Append(r3, "High latency detected. Consider using a closer server or check network routing.")
              ELSE r3
    IN  r4

Recommendations(conditions) ==
    LET r0 == << >>
        r1 == IF conditions.packet_loss > 5 * One
              THEN Append(r0, "High packet loss detected. Consider checking network hardware or ISP service.")
              ELSE r0
        r2 == IF conditions.latency > 100 * One
              THEN Append(r1, "High latency detected. Consider using a closer server or check network routing.")
              ELSE r1
        r3 == IF conditions.jitter > 30 * One
              THEN Append(r2, "High jitter detected. QoS settings adjustment recommended.")
              ELSE r2
        r4 == IF 10 * conditions.throughput < 3 * One
              THEN Append(r3, "Low throughput detected. Bandwidth upgrade or traffic optimization recommended.")
              ELSE r3
    IN  r4

\* mutant: the normalisation step is missing
NetworkScoreUnclamped(conditions) ==
    LET s0 == 100 * One
        s1 == s0 - conditions.packet_loss * 2
        s2 == s1 - conditions.latency \div 2
        s3 == s2 - conditions.jitter * 5
        s4 == s3 + conditions.throughput * 20
        s5 == s4 + Min(conditions.bandwidth * 5, 30 * One)
    IN  s5

\* mutant: the bandwidth term is not capped
NetworkScoreUncapped(conditions) ==
    LET s0 == 100 * One
        s1 == s0 - conditions.packet_loss * 2
        s2 == s1 - conditions.latency \div 2
        s3 == s2 - conditions.jitter * 5
        s4 == s3 + conditions.throughput * 20
        s5 == s4 + conditions.bandwidth * 5
    IN  Max(0, Min(100 * One, s5))

NetworkScore(conditions) ==
    LET s0 == 100 * One
        s1 == s0 - conditions.packet_loss * 2
        s2 == s1 - conditions.latency \div 2
        s3 == s2 - conditions.jitter * 5
        s4 == s3 + conditions.throughput * 20
        s5 == s4 + Min(conditions.bandwidth * 5, 30 * One)
    IN  Max(0, Min(100 * One, s5))

\* mutant: the two middle bands are exchanged
CongestionLevelSwapped(score) ==
    IF score >= 80 * One THEN "Low"
    ELSE IF score >= 60 * One THEN "High"
    ELSE IF score >= 40 * One THEN "Moderate"
    ELSE "Severe"

CongestionLevel(score) ==
    IF score >= 80 * One THEN "Low"
    ELSE IF score >= 60 * One THEN "Moderate"
    ELSE IF score >= 40 * One THEN "High"
    ELSE "Severe"

PerformanceRating(score) ==
    IF score >= 90 * One THEN "Excellent"
    ELSE IF score >= 75 * One THEN "Good"
    ELSE IF score >= 60 * One THEN "Fair"
    ELSE IF score >= 40 * One THEN "Poor"
    ELSE "Critical"

analyze_network(conditions) ==
    LET score == NetworkScore(conditions)
    IN  [network_score |-> score,
         congestion_level |-> CongestionLevel(score),
         performance_rating |-> PerformanceRating(score),
         recommendations |-> Recommendations(conditions)]

\* ------------------------------------------------------------------------
\* get_video_recommendations: the possible profiles (one, or two when the
\* bitrate is formatted from a value half way between two tenths)
\* ------------------------------------------------------------------------
\* mutant: the first tier starts at 75, where the rating "Good" starts
get_video_recommendations_75(conditions, score) ==
    IF score >= 75 * One THEN
        {[resolution |-> "4K (2160p)", fps |-> 60, bitrate |-> b,
          codec |-> "H.265/HEVC", streaming_quality |-> "Ultra High"] :
            b \in Format1(Min((conditions.bandwidth * 8) \div 10, 35 * One))}
    ELSE IF score >= 60 * One THEN
        {[resolution |-> "1080p", fps |-> 30, bitrate |-> b,
          codec |-> "H.264/AVC", streaming_quality |-> "High"] :
            b \in Format1(Min((conditions.bandwidth * 7) \div 10, 15 * One))}
    ELSE IF score >= 40 * One THEN
        {[resolution |-> "720p", fps |-> 30, bitrate |-> b,
          codec |-> "H.264/AVC", streaming_quality |-> "Medium"] :
            b \in Format1(Min((conditions.bandwidth * 6) \div 10, 8 * One))}
    ELSE
        {[resolution |-> "480p", fps |-> 24, bitrate |-> b,
          codec |-> "H.264/AVC", streaming_quality |-> "Low"] :
            b \in Format1(Min((conditions.bandwidth * 5) \div 10, 4 * One))}

get_video_recommendations(conditions, score) ==
    IF score >= 80 * One THEN
        {[resolution |-> "4K (2160p)", fps |-> 60, bitrate |-> b,
          codec |-> "H.265/HEVC", streaming_quality |-> "Ultra High"] :
            b \in Format1(Min((conditions.bandwidth * 8) \div 10, 35 * One))}
    ELSE IF score >= 60 * One THEN
        {[resolution |-> "1080p", fps |-> 30, bitrate |-> b,
          codec |-> "H.264/AVC", streaming_quality |-> "High"] :
            b \in Format1(Min((conditions.bandwidth * 7) \div 10, 15 * One))}
    ELSE IF score >= 40 * One THEN
        {[resolution |-> "720p", fps |-> 30, bitrate |-> b,
          codec |-> "H.264/AVC", streaming_quality |-> "Medium"] :
            b \in Format1(Min((conditions.bandwidth * 6) \div 10, 8 * One))}
    ELSE
        {[resolution |-> "480p", fps |-> 24, bitrate |-> b,
          codec |-> "H.264/AVC", streaming_quality |-> "Low"] :
            b \in Format1(Min((conditions.bandwidth * 5) \div 10, 4 * One))}

\* ------------------------------------------------------------------------
\* POST /analyze: the possible response bodies
\* ------------------------------------------------------------------------
\* mutant: a score of exactly 60 also gets the larger bandwidth
RecommendedBandwidthAt60(conditions, analysis) ==
    IF analysis.network_score <= 60 * One
    THEN (conditions.bandwidth * 3) \div 2
    ELSE conditions.bandwidth

RecommendedBandwidth(conditions, analysis) ==
    IF analysis.network_score < 60 * One
    THEN (conditions.bandwidth * 3) \div 2
    ELSE conditions.bandwidth

\* f"{min((optimal_bandwidth/conditions.bandwidth - 1) * 100, 100):.1f}%"
PotentialImprovement(conditions, optimal_bandwidth) ==
    LET num == (optimal_bandwidth - conditions.bandwidth) * 100
    IN  IF num >= 100 * conditions.bandwidth
        THEN Format1Ratio(100, 1)
        ELSE Format1Ratio(num, conditions.bandwidth)

analyze_network_conditions(conditions) ==
    LET analysis == analyze_network(conditions)
        optimal_bandwidth == RecommendedBandwidth(conditions, analysis)
    IN  {[endpoint |-> "analyze",
          input_conditions |-> conditions,
          analysis_results |-> analysis,
          optimization |-> [current_bandwidth |-> conditions.bandwidth,
                            recommended_bandwidth |-> optimal_bandwidth,
                            potential_improvement |-> pi],
          video_streaming |-> video_rec,
          status |-> "success"] :
            video_rec \in get_video_recommendations(conditions, analysis.network_score),
            pi \in PotentialImprovement(conditions, optimal_bandwidth)}

\* ------------------------------------------------------------------------
\* POST /optimize
\* ------------------------------------------------------------------------
\* np.linspace(start, stop, num): num evenly spaced samples, both ends included
\* mutant: the stop value is left out (endpoint=False)
linspaceOpen(start, stop, num) ==
    LET step == (stop - start) \div num
    IN  [i \in 1..num |-> start + (i - 1) * step]

linspace(start, stop, num) ==
    LET step == (stop - start) \div (num - 1)
    IN  [i \in 1..num |-> IF i = num THEN stop ELSE start + (i - 1) * step]

\* test_conditions = conditions.dict(); test_conditions['bandwidth'] = float(bw)
TestConditions(conditions, bw) == [conditions EXCEPT !.bandwidth = bw]

\* the dictionaries one pass of the loop body may append for the candidate bw
OptimizationStep(conditions, bw) ==
    LET test_conditions == TestConditions(conditions, bw)
        test_analysis == analyze_network(test_conditions)
    IN  {[bandwidth |-> bw,
          predicted_score |-> test_analysis.network_score,
          congestion_level |-> test_analysis.congestion_level,
          video_quality |-> video_rec] :
            video_rec \in get_video_recommendations(test_conditions,
                                                    test_analysis.network_score)}

\* the lists the loop may build from the candidates steps[i..]
RECURSIVE OptimizationSteps(_, _, _)
OptimizationSteps(conditions, steps, i) ==
    IF i > Len(steps) THEN {<< >>}
    ELSE {<<first>> \o rest :
            first \in OptimizationStep(conditions, steps[i]),
            rest \in OptimizationSteps(conditions, steps, i + 1)}

\* max(optimization_steps, key=lambda x: x['predicted_score']): the index of
\* the result among optimization_steps[1..n]; the first maximal item wins
\* mutant: the last maximal item wins
RECURSIVE MaxIndexLast(_, _)
MaxIndexLast(optimization_steps, n) ==
    IF n = 1 THEN 1
    ELSE LET best == MaxIndexLast(optimization_steps, n - 1)
         IN  IF optimization_steps[n].predicted_score
                  >= optimization_steps[best].predicted_score
             THEN n ELSE best

\* mutant: the minimal item is selected
RECURSIVE MinIndex(_, _)
MinIndex(optimization_steps, n) ==
    IF n = 1 THEN 1
    ELSE LET best == MinIndex(optimization_steps, n - 1)
         IN  IF optimization_steps[n].predicted_score
                  < optimization_steps[best].predicted_score
             THEN n ELSE best

RECURSIVE MaxIndex(_, _)
MaxIndex(optimization_steps, n) ==
    IF n = 1 THEN 1
    ELSE LET best == MaxIndex(optimization_steps, n - 1)
         IN  IF optimization_steps[n].predicted_score
                  > optimization_steps[best].predicted_score
             THEN n ELSE best

ErrorResponse(name) == [endpoint |-> name, status |-> "error"]

\* the response built from one list of steps
OptimizeResult(conditions, analysis, optimization_steps) ==
    LET optimal_index == MaxIndex(optimization_steps, Len(optimization_steps))
        optimal_step == optimization_steps[optimal_index]
        initial_congestion == 100 * One - analysis.network_score
        optimal_congestion == 100 * One - optimal_step.predicted_score
        congestion_reduction == initial_congestion - optimal_congestion
    IN  IF optimal_step.bandwidth = 0
        THEN {ErrorResponse("optimize")}
        ELSE
        {[endpoint |-> "optimize",
          current_conditions |->
              [bandwidth |-> conditions.bandwidth,
               throughput |-> conditions.throughput,
               packet_loss |-> conditions.packet_loss,
               latency |-> conditions.latency,
               jitter |-> conditions.jitter,
               current_congestion |-> cc,
               current_score |-> analysis.network_score],
          optimal_configuration |->
              [bandwidth |-> optimal_step.bandwidth,
               predicted_score |-> optimal_step.predicted_score,
               predicted_congestion |-> optimal_step.congestion_level,
               congestion_reduction |-> cr,
               video_quality |-> optimal_step.video_quality,
               performance_metrics |->
                   [bandwidth_improvement |-> bi,
                    quality_improvement |-> qi,
                    network_efficiency |-> ne]],
          step_by_step_optimization |-> optimization_steps,
          recommendations |-> analysis.recommendations,
          status |-> "success"] :
            cc \in Format1(initial_congestion),
            cr \in Format1(congestion_reduction),
            bi \in Format1Ratio((optimal_step.bandwidth - conditions.bandwidth) * 100,
                                conditions.bandwidth),
            qi \in Format1(optimal_step.predicted_score - analysis.network_score),
            ne \in Format1Ratio(optimal_step.predicted_score, optimal_step.bandwidth)}

optimize_network(conditions) ==
    LET analysis == analyze_network(conditions)
        min_bw == conditions.bandwidth \div 2
        max_bw == conditions.bandwidth * 2
        steps == linspace(min_bw, max_bw, 10)
    IN  IF \E i \in 1..Len(steps) : ~NetworkConditions(TestConditions(conditions, steps[i]))
        THEN {ErrorResponse("optimize")}
        ELSE UNION {OptimizeResult(conditions, analysis, optimization_steps) :
                        optimization_steps \in OptimizationSteps(conditions, steps, 1)}

\* ------------------------------------------------------------------------
\* The requests in flight
\* ------------------------------------------------------------------------
VARIABLES conditions, pc, response

vars == <<conditions, pc, response>>

Requests == DOMAIN conditions

NoResponse == [endpoint |-> "none", status |-> "none"]

InitWith(requests, inputs) ==
    /\ conditions \in [requests -> inputs]
    /\ pc = [r \in requests |-> "received"]
    /\ response = [r \in requests |-> NoResponse]

\* one request
Init == InitWith({1}, Inputs)

\* two independent requests served side by side
InitPair == InitWith({1, 2}, PairInputs)

AnalyzeNetworkConditions(r) ==
    /\ pc[r] = "received"
    /\ \E body \in analyze_network_conditions(conditions[r]) :
          response' = [response EXCEPT ![r] = body]
    /\ pc' = [pc EXCEPT ![r] = "answered"]
    /\ UNCHANGED conditions

OptimizeNetwork(r) ==
    /\ pc[r] = "received"
    /\ \E body \in optimize_network(conditions[r]) :
          response' = [response EXCEPT ![r] = body]
    /\ pc' = [pc EXCEPT ![r] = "answered"]
    /\ UNCHANGED conditions

Next ==
    \/ \E r \in Requests : AnalyzeNetworkConditions(r)
    \/ \E r \in Requests : OptimizeNetwork(r)

Spec == Init /\ [][Next]_vars

SpecPair == InitPair /\ [][Next]_vars

\* ------------------------------------------------------------------------
\* Reading the responses
\* ------------------------------------------------------------------------
Analyzed(r) ==
    pc[r] = "answered" /\ response[r].endpoint = "analyze" /\ response[r].status = "success"

Optimized(r) ==
    pc[r] = "answered" /\ response[r].endpoint = "optimize" /\ response[r].status = "success"

Clamp(x, lo, hi) == IF x < lo THEN lo ELSE IF x > hi THEN hi ELSE x

\* twice 100 - 2*packet_loss - 0.5*latency - 5*jitter + 20*throughput + min(5*bandwidth, 30)
TwiceRawScore(c) ==
    200 * One - 4 * c.packet_loss - c.latency - 10 * c.jitter + 40 * c.throughput
        + (IF c.bandwidth >= 6 * One THEN 60 * One ELSE 10 * c.bandwidth)

IsClampedScore(c, score) ==
    /\ 0 <= score /\ score <= 100 * One
    /\ 2 * score = Clamp(TwiceRawScore(c), 0, 200 * One)

\* the (conditions, score) pairs a response reports a score for
ScoredConditions(r) ==
    IF Analyzed(r)
    THEN {<<conditions[r], response[r].analysis_results.network_score>>}
    ELSE IF Optimized(r)
    THEN {<<conditions[r], response[r].current_conditions.current_score>>}
         \cup {<<[conditions[r] EXCEPT
                    !.bandwidth = response[r].step_by_step_optimization[i].bandwidth],
                 response[r].step_by_step_optimization[i].predicted_score>> :
                 i \in DOMAIN response[r].step_by_step_optimization}
    ELSE {}

\* C1: every score a response reports lies in [0, 100] and equals
\* clamp(100 - 2*packet_loss - 0.5*latency - 5*jitter + 20*throughput
\*       + min(5*bandwidth, 30), 0, 100) of the conditions it was computed for.
C1_ScoreIsClampedFormula ==
    \A r \in Requests : \A cs \in ScoredConditions(r) : IsClampedScore(cs[1], cs[2])

\* an analysis whose formula overshoots 100 and is clamped to it
C1_Witness ==
    \E r \in Requests :
        /\ Analyzed(r)
        /\ TwiceRawScore(conditions[r]) > 200 * One
        /\ response[r].analysis_results.network_score = 100 * One

\* ------------------------------------------------------------------------
\* The optimizer's steps
\* ------------------------------------------------------------------------
StepsOf(r) == response[r].step_by_step_optimization

OptimalOf(r) == response[r].optimal_configuration

\* the indices of the steps the optimal configuration can have been taken from
OptimalIndices(r) ==
    {i \in DOMAIN StepsOf(r) :
        /\ StepsOf(r)[i].bandwidth = OptimalOf(r).bandwidth
        /\ StepsOf(r)[i].predicted_score = OptimalOf(r).predicted_score
        /\ StepsOf(r)[i].congestion_level = OptimalOf(r).predicted_congestion
        /\ StepsOf(r)[i].video_quality = OptimalOf(r).video_quality}

\* C2: the optimal step is one of the steps, its predicted_score is >= that
\* of every step, and every step generated before it has a strictly lower
\* predicted_score (among tied maxima the lowest index is selected).
C2_OptimalIsFirstMaximum ==
    \A r \in Requests : Optimized(r) =>
        /\ OptimalIndices(r) # {}
        /\ \A i \in DOMAIN StepsOf(r) :
              StepsOf(r)[i].predicted_score <= OptimalOf(r).predicted_score
        /\ \E k \in OptimalIndices(r) : \A i \in 1..(k - 1) :
              StepsOf(r)[i].predicted_score < OptimalOf(r).predicted_score

\* several steps tie at the maximum and the selected one is the first of
\* them, neither the first nor the last step of the list
C2_Witness ==
    \E r \in Requests :
        /\ Optimized(r)
        /\ \E k \in OptimalIndices(r) :
              /\ k > 1 /\ k < Len(StepsOf(r))
              /\ StepsOf(r)[k + 1].predicted_score = OptimalOf(r).predicted_score
              /\ StepsOf(r)[k - 1].predicted_score < OptimalOf(r).predicted_score

GateMessages ==
    <<"High packet loss detected. Consider checking network hardware or ISP service.",
      "High latency detected. Consider using a closer server or check network routing.",
      "High jitter detected. QoS settings adjustment recommended.",
      "Low throughput detected. Bandwidth upgrade or traffic optimization recommended.">>

Gates(c) ==
    <<c.packet_loss > 5 * One, c.latency > 100 * One, c.jitter > 30 * One,
      10 * c.throughput < 3 * One>>

RecommendationsOf(r) ==
    IF Analyzed(r) THEN response[r].analysis_results.recommendations
    ELSE response[r].recommendations

\* C4: the recommendations are empty iff no gate is true; there is exactly
\* one message per true gate; the messages appear in the order packet_loss,
\* latency, jitter, throughput; the gates read the raw inputs only.
C4_RecommendationsFollowGates ==
    \A r \in Requests : (Analyzed(r) \/ Optimized(r)) =>
        LET recs == RecommendationsOf(r)
            gates == Gates(conditions[r])
        IN  /\ (recs = << >>) <=> (\A g \in 1..4 : ~gates[g])
            /\ Len(recs) = Cardinality({g \in 1..4 : gates[g]})
            /\ \A g \in 1..4 :
                  gates[g] <=> (\E k \in DOMAIN recs : recs[k] = GateMessages[g])
            /\ \A k, l \in DOMAIN recs : k < l =>
                  \E g, h \in 1..4 :
                      g < h /\ recs[k] = GateMessages[g] /\ recs[l] = GateMessages[h]

\* two non-adjacent gates fire while the score is a perfect 100
C4_Witness ==
    \E r \in Requests :
        /\ Analyzed(r)
        /\ response[r].analysis_results.network_score = 100 * One
        /\ Len(response[r].analysis_results.recommendations) = 2
        /\ Gates(conditions[r])[1] /\ Gates(conditions[r])[4]

\* ------------------------------------------------------------------------
\* Banding (two requests served side by side)
\* ------------------------------------------------------------------------
CongestionRank(level) ==
    CASE level = "Severe" -> 1 [] level = "High" -> 2
      [] level = "Moderate" -> 3 [] level = "Low" -> 4 [] OTHER -> 0

RatingRank(rating) ==
    CASE rating = "Critical" -> 1 [] rating = "Poor" -> 2 [] rating = "Fair" -> 3
      [] rating = "Good" -> 4 [] rating = "Excellent" -> 5 [] OTHER -> 0

AnalysisOf(r) == response[r].analysis_results

\* the tier of a profile: everything but the bitrate
TierOf(profile) ==
    <<profile.resolution, profile.fps, profile.codec, profile.streaming_quality>>

\* C5: congestion_level and performance_rating are determined by the score
\* (equal scores, equal bands) and are monotone: a score at least as high
\* gets a band at least as good (Severe < High < Moderate < Low and
\* Critical < Poor < Fair < Good < Excellent).
C5_BandsMonotoneInScore ==
    \A r1, r2 \in Requests : (Analyzed(r1) /\ Analyzed(r2)) =>
        /\ CongestionRank(AnalysisOf(r1).congestion_level) \in 1..4
        /\ RatingRank(AnalysisOf(r1).performance_rating) \in 1..5
        /\ AnalysisOf(r1).network_score = AnalysisOf(r2).network_score =>
              /\ AnalysisOf(r1).congestion_level = AnalysisOf(r2).congestion_level
              /\ AnalysisOf(r1).performance_rating = AnalysisOf(r2).performance_rating
        /\ AnalysisOf(r1).network_score <= AnalysisOf(r2).network_score =>
              /\ CongestionRank(AnalysisOf(r1).congestion_level)
                    <= CongestionRank(AnalysisOf(r2).congestion_level)
              /\ RatingRank(AnalysisOf(r1).performance_rating)
                    <= RatingRank(AnalysisOf(r2).performance_rating)

\* two different requests with the same score, analysed both
C5_Witness ==
    /\ Requests = {1, 2}
    /\ Analyzed(1) /\ Analyzed(2)
    /\ conditions[1] # conditions[2]
    /\ AnalysisOf(1).network_score = AnalysisOf(2).network_score
    /\ AnalysisOf(1).network_score = 60 * One

SameTier(r1, r2) ==
    TierOf(response[r1].video_streaming) = TierOf(response[r2].video_streaming)

\* C6 as stated: two analysed scores fall in the same stream-profile tier
\* exactly when they have the same performance_rating.
C6_TiersFollowRating ==
    \A r1, r2 \in Requests : (Analyzed(r1) /\ Analyzed(r2)) =>
        (SameTier(r1, r2)
            <=> AnalysisOf(r1).performance_rating = AnalysisOf(r2).performance_rating)

\* C6 amended: the tier boundaries 80/60/40 are those of the congestion
\* level: two analysed scores fall in the same tier exactly when they have
\* the same congestion_level; the performance rating shares only the
\* boundaries 60 and 40, so tier and rating agree in this way only when at
\* least one of the two scores is below 60.
C6_TiersFollowCongestion ==
    \A r1, r2 \in Requests : (Analyzed(r1) /\ Analyzed(r2)) =>
        /\ SameTier(r1, r2)
              <=> AnalysisOf(r1).congestion_level = AnalysisOf(r2).congestion_level
        /\ (AnalysisOf(r1).network_score < 60 * One \/ AnalysisOf(r2).network_score < 60 * One)
              => (SameTier(r1, r2)
                    <=> AnalysisOf(r1).performance_rating = AnalysisOf(r2).performance_rating)

\* two analysed scores in one tier with two ratings (scores 85 and 95)
C6_Witness ==
    /\ Requests = {1, 2}
    /\ Analyzed(1) /\ Analyzed(2)
    /\ AnalysisOf(1).network_score = 85 * One
    /\ AnalysisOf(2).network_score = 95 * One
    /\ SameTier(1, 2)
    /\ AnalysisOf(1).performance_rating # AnalysisOf(2).performance_rating

\* ------------------------------------------------------------------------
\* Stream profiles
\* ------------------------------------------------------------------------
\* the (bandwidth, score, profile) triples a response reports
ProfilesOf(r) ==
    IF Analyzed(r)
    THEN {<<conditions[r].bandwidth, AnalysisOf(r).network_score, response[r].video_streaming>>}
    ELSE IF Optimized(r)
    THEN {<<StepsOf(r)[i].bandwidth, StepsOf(r)[i].predicted_score, StepsOf(r)[i].video_quality>> :
            i \in DOMAIN StepsOf(r)}
    ELSE {}

\* the tier table: template, tenths of the bandwidth, cap in Mbps
TierTable(score) ==
    IF score >= 80 * One THEN <<(<<"4K (2160p)", 60, "H.265/HEVC", "Ultra High">>), 8, 35>>
    ELSE IF score >= 60 * One THEN <<(<<"1080p", 30, "H.264/AVC", "High">>), 7, 15>>
    ELSE IF score >= 40 * One THEN <<(<<"720p", 30, "H.264/AVC", "Medium">>), 6, 8>>
    ELSE <<(<<"480p", 24, "H.264/AVC", "Low">>), 5, 4>>

\* ten times min(bandwidth * fraction, cap), in fixed-point units
TenTimesBitrate(bw, score) == Min(bw * TierTable(score)[2], 10 * TierTable(score)[3] * One)

\* C7 as stated: the profile is the template of the score's tier with
\* bitrate = min(bandwidth * fraction, cap), which never exceeds the cap and
\* is strictly less than the bandwidth.
C7_BitrateIsExactMin ==
    \A r \in Requests : \A p \in ProfilesOf(r) :
        /\ TierOf(p[3]) = TierTable(p[2])[1]
        /\ p[3].bitrate * One = TenTimesBitrate(p[1], p[2])
        /\ p[3].bitrate <= 10 * TierTable(p[2])[3]
        /\ p[3].bitrate * One < 10 * p[1]

\* C7 amended: the profile is the template of the score's tier; its bitrate
\* is min(bandwidth * fraction, cap) rounded to one decimal place (it differs
\* from that value by at most 0.05); the reported bitrate never exceeds the
\* cap, and the unrounded value is strictly less than the bandwidth.
C7_BitrateIsRoundedMin ==
    \A r \in Requests : \A p \in ProfilesOf(r) :
        /\ TierOf(p[3]) = TierTable(p[2])[1]
        /\ 2 * (p[3].bitrate * One - TenTimesBitrate(p[1], p[2])) <= One
        /\ 2 * (TenTimesBitrate(p[1], p[2]) - p[3].bitrate * One) <= One
        /\ p[3].bitrate <= 10 * TierTable(p[2])[3]
        /\ TenTimesBitrate(p[1], p[2]) < 10 * p[1]

\* an analysis reporting a bitrate above the bandwidth (0.1 Mbps of 0.09)
C7_Witness ==
    \E r \in Requests :
        /\ Analyzed(r)
        /\ response[r].video_streaming.bitrate * One > 10 * conditions[r].bandwidth

\* ------------------------------------------------------------------------
\* The 1.5x heuristic of /analyze
\* ------------------------------------------------------------------------
\* C8: the recommended bandwidth is 1.5 * current exactly when the score is
\* below 60 and the current bandwidth otherwise; the potential improvement
\* is min((recommended/current - 1) * 100, 100), at most 100, and is
\* settled by the score and the bandwidth alone (50.0 below 60, 0.0 otherwise).
C8_RecommendedBandwidthHeuristic ==
    \A r \in Requests : Analyzed(r) =>
        LET opt == response[r].optimization
            score == AnalysisOf(r).network_score
        IN  /\ opt.current_bandwidth = conditions[r].bandwidth
            /\ (2 * opt.recommended_bandwidth = 3 * opt.current_bandwidth)
                  <=> (score < 60 * One)
            /\ score >= 60 * One => opt.recommended_bandwidth = opt.current_bandwidth
            /\ opt.potential_improvement <= 1000
            /\ opt.potential_improvement * opt.current_bandwidth
                  = 1000 * (opt.recommended_bandwidth - opt.current_bandwidth)
            /\ opt.potential_improvement = (IF score < 60 * One THEN 500 ELSE 0)

\* an analysis with a score below 60 that recommends half as much again
C8_Witness ==
    \E r \in Requests :
        /\ Analyzed(r)
        /\ AnalysisOf(r).network_score < 60 * One
        /\ AnalysisOf(r).network_score > 0
        /\ response[r].optimization.potential_improvement = 500

\* ------------------------------------------------------------------------
\* Saturation of the bandwidth term
\* ------------------------------------------------------------------------
\* the indices of the candidates at or above the saturation point 6 Mbps
Saturated(r) == {i \in DOMAIN StepsOf(r) : StepsOf(r)[i].bandwidth >= 6 * One}

FirstSaturated(r) == CHOOSE i \in Saturated(r) : \A j \in Saturated(r) : i <= j

VariantOf(r, i) == [conditions[r] EXCEPT !.bandwidth = StepsOf(r)[i].bandwidth]

\* C9 as stated: when the grid contains a bandwidth >= 6 the optimal step is
\* the first candidate whose bandwidth is at or above 6.
C9_OptimalIsFirstSaturated ==
    \A r \in Requests : (Optimized(r) /\ Saturated(r) # {}) =>
        OptimalOf(r).bandwidth = StepsOf(r)[FirstSaturated(r)].bandwidth

\* C9 amended: the predicted score never falls as the candidate bandwidth
\* rises, is the same for all candidates at or above 6, and below 6 rises by
\* 5 per Mbps while it is not clamped.  When the grid contains a bandwidth
\* >= 6 the optimal step is the first candidate whose clamped score equals
\* that of the first candidate at or above 6: never a later candidate, that
\* candidate itself when its unclamped score is above 0 and the unclamped
\* score of the candidate before it is below 100, and an earlier candidate
\* otherwise (the very first one when every score is clamped to 0).
C9_OptimalIsFirstToReachSaturatedScore ==
    \A r \in Requests : Optimized(r) =>
        /\ \A i, j \in DOMAIN StepsOf(r) : i < j =>
              /\ StepsOf(r)[i].predicted_score <= StepsOf(r)[j].predicted_score
              /\ i \in Saturated(r)
                    => StepsOf(r)[i].predicted_score = StepsOf(r)[j].predicted_score
              /\ (/\ j \notin Saturated(r)
                  /\ StepsOf(r)[i].predicted_score > 0
                  /\ StepsOf(r)[j].predicted_score < 100 * One)
                    => StepsOf(r)[j].predicted_score - StepsOf(r)[i].predicted_score
                          = 5 * (StepsOf(r)[j].bandwidth - StepsOf(r)[i].bandwidth)
        /\ Saturated(r) # {} =>
              LET f == FirstSaturated(r)
                  first == {i \in 1..f : StepsOf(r)[i].predicted_score = StepsOf(r)[f].predicted_score}
              IN  /\ OptimalOf(r).predicted_score = StepsOf(r)[f].predicted_score
                  /\ OptimalOf(r).bandwidth <= StepsOf(r)[f].bandwidth
                  /\ \A i \in first : OptimalOf(r).bandwidth <= StepsOf(r)[i].bandwidth
                  /\ (/\ TwiceRawScore(VariantOf(r, f)) > 0
                      /\ (f > 1 => TwiceRawScore(VariantOf(r, f - 1)) < 200 * One))
                        => OptimalOf(r).bandwidth = StepsOf(r)[f].bandwidth
                  /\ (StepsOf(r)[f].predicted_score = 0
                      \/ (f > 1 /\ TwiceRawScore(VariantOf(r, f - 1)) >= 200 * One))
                        => (f > 1 => OptimalOf(r).bandwidth < StepsOf(r)[f].bandwidth)
                  /\ StepsOf(r)[f].predicted_score = 0
                        => OptimalOf(r).bandwidth = StepsOf(r)[1].bandwidth

\* the optimal step is the first candidate at or above 6, with lower scores
\* before it and equal scores at larger bandwidths after it
C9_Witness ==
    \E r \in Requests :
        /\ Optimized(r)
        /\ Saturated(r) # {}
        /\ FirstSaturated(r) > 1 /\ FirstSaturated(r) < 10
        /\ OptimalOf(r).bandwidth = StepsOf(r)[FirstSaturated(r)].bandwidth
        /\ StepsOf(r)[FirstSaturated(r) - 1].predicted_score < OptimalOf(r).predicted_score
        /\ StepsOf(r)[10].predicted_score = OptimalOf(r).predicted_score

====
